---- MODULE Spec2Model ----
(***************************************************************************)
(* Morphology pipeline module (create_db_entries, ready_jobs, morpho_db)   *)
(* and the timestamp lookups of SynphysDatabase, as a state machine over   *)
(* the persistent store (Experiment, Cell, Slice, Morphology), the         *)
(* external morphology source and the LIMS lookups.                        *)
(*                                                                         *)
(* Further specifications cover SynphysDatabase.pair_query (SpecPairs),    *)
(* the fit methods of exp_fit_test.py (SpecFit, SpecML) and the cluster    *)
(* submission script stochastic_model_hpc.py (SpecHpc); each leaves the    *)
(* variables of the other parts unused.                                    *)
(*                                                                         *)
(* Timestamps are integers in milliseconds.  An md5 digest is modelled by  *)
(* its pre-image (the digest is taken as injective); a Python string that  *)
(* is built by the code (repr, join) is the sequence of its tokens.        *)
(***************************************************************************)
EXTENDS Integers, Sequences, FiniteSets, TLC

VARIABLES
    experiment,     \* Experiment table: sequence of rows
    slice,          \* Slice table: sequence of rows
    cell,           \* Cell table: cell id -> row (meta, cell_class_nonsynaptic)
    morphology,     \* Morphology table: sequence of committed rows
    morpho_src,     \* external morphology source: specimen id -> row
    cluster_src,    \* LIMS: cluster id -> result of lims.cluster_cells
    ret,            \* what the last operation returned, raised and printed
    pair,           \* Pair table: sequence of rows
    connection_strength, \* ConnectionStrength table: sequence of rows
    jac_fns,        \* ExpFitMethod._jac_fns, the class-level gradient cache
    exp_methods,    \* ExpFitMethod instances, with the position of __init__
    ml_method,      \* the PspMLMethod instance
    model,          \* the module-level name `model` of exp_fit_test.py
    fit_ret,        \* what the last call of the fit engine returned or raised
    files,          \* cache and log directories of the submission script
    queue,          \* jobs the cluster has accepted
    runs            \* runs of the submission script, each with its position

storeVars == <<experiment, slice, cell, morphology, morpho_src, cluster_src, ret>>
pairVars == <<pair, connection_strength>>
fitVars == <<jac_fns, exp_methods, ml_method, model, fit_ret>>
hpcVars == <<files, queue, runs>>
extVars == <<pairVars, fitVars, hpcVars>>
vars == <<storeVars, extVars>>

----------------------------------------------------------------------------
(* Bounds of the model *)

\* most rows the Morphology table holds before create_db_entries is no
\* longer scheduled
MaxMorphology == 4
\* how many distinct readings of datetime.now() a ready_jobs call may see
ClockSpan == 2

----------------------------------------------------------------------------
(* Python values: None, str, float, bool, all of one shape *)

None == [kind |-> "None", s |-> "", n |-> 0]
Str(x) == [kind |-> "str", s |-> x, n |-> 0]
Num(k) == [kind |-> "num", s |-> "", n |-> k]
True == [kind |-> "bool", s |-> "", n |-> 1]

IsNone(v) == v.kind = "None"

\* Python truth value, as filter(None, ...) applies it
Truthy(v) ==
    CASE v.kind = "None" -> FALSE
      [] v.kind = "str"  -> v.s # ""
      [] v.kind = "num"  -> v.n # 0
      [] OTHER           -> v.n # 0

\* repr() of a value, as tokens
ReprValue(v) ==
    CASE v.kind = "None" -> <<"None">>
      [] v.kind = "str"  -> <<"'", v.s, "'">>
      [] v.kind = "num"  -> <<ToString(v.n)>>
      [] OTHER           -> <<"True">>

\* the numeric strings that occur in the source rows, with their float() value
FloatLiterals == ("12" :> 12) @@ ("35" :> 35)

\* float(data): [ok, v]; ok = FALSE stands for ValueError
float(data) ==
    CASE data.kind = "num"  -> [ok |-> TRUE, v |-> data]
      [] data.kind = "bool" -> [ok |-> TRUE, v |-> Num(data.n)]
      [] data.kind = "str" /\ data.s \in DOMAIN FloatLiterals
                            -> [ok |-> TRUE, v |-> Num(FloatLiterals[data.s])]
      [] OTHER              -> [ok |-> FALSE, v |-> None]

----------------------------------------------------------------------------
(* The parts of the program a specification leaves out stay as constructed *)

NoPairs == pair = <<>> /\ connection_strength = <<>>
NoFits ==
    /\ jac_fns = None /\ exp_methods = <<>> /\ ml_method = None
    /\ model = None /\ fit_ret = [op |-> "init"]
NoRuns == files = <<>> /\ queue = <<>> /\ runs = <<>>

----------------------------------------------------------------------------
(* col_names: the columns copied from the external source *)

\* iteration order of col_names.items()
ColOrder == <<"Qual_Morpho_Type", "dendrite_type",
              "Apical_truncation_distance", "Axon_truncation_distance",
              "Axon origination", "Axon_truncation", "Apical_truncation">>

col_names ==
    ("Qual_Morpho_Type" :> [name |-> "qual_morpho_type", type |-> "str",
                            members |-> <<>>]) @@
    ("dendrite_type" :> [name |-> "dendrite_type", type |-> "list",
                         members |-> <<"spiny", "aspiny", "sparsely spiny", "NEI">>]) @@
    ("Apical_truncation_distance" :> [name |-> "apical_trunc_distance",
                                      type |-> "float", members |-> <<>>]) @@
    ("Axon_truncation_distance" :> [name |-> "axon_trunc_distance",
                                    type |-> "float", members |-> <<>>]) @@
    ("Axon origination" :> [name |-> "axon_origin", type |-> "list",
                            members |-> <<"soma", "dendrite", "unclear", "NEI">>]) @@
    ("Axon_truncation" :> [name |-> "axon_truncation", type |-> "list",
                           members |-> <<"truncated", "borderline", "intact",
                                         "unclear", "NEI">>]) @@
    ("Apical_truncation" :> [name |-> "apical_truncation", type |-> "list",
                             members |-> <<"truncated", "borderline", "intact",
                                           "unclear", "NEI">>])

\* the Morphology columns that col_names fills
ColNames == {col_names[c].name : c \in DOMAIN col_names}

----------------------------------------------------------------------------
(* The external morphology source *)

\* field order of a source row (cursor_description / JSON object order)
RowFields == <<"cell_specimen_id">> \o ColOrder

SpecimenIds == {101, 102}

AnnotA ==
    ("Qual_Morpho_Type" :> None) @@
    ("dendrite_type" :> Str("spiny")) @@
    ("Apical_truncation_distance" :> Str("12")) @@
    ("Axon_truncation_distance" :> Num(7)) @@
    ("Axon origination" :> Str("soma")) @@
    ("Axon_truncation" :> Str("intact")) @@
    ("Apical_truncation" :> Str("truncated"))

\* the same annotation with one field changed
AnnotAspiny == [AnnotA EXCEPT !["dendrite_type"] = Str("aspiny")]
\* an enumerated value that is no member of its set
AnnotBadEnum == [AnnotA EXCEPT !["Axon_truncation"] = Str("Intact")]
\* a distance that is no number
AnnotBadFloat == [AnnotA EXCEPT !["Axon_truncation_distance"] = Str("n/a")]

\* the annotations the source may hold for each specimen
Annotations ==
    (101 :> {AnnotA, AnnotAspiny, AnnotBadEnum}) @@
    (102 :> {AnnotA, AnnotBadFloat})

SourceRow(sid, annot) == ("cell_specimen_id" :> Num(sid)) @@ annot

\* the rows the source may hold
SourceChoices == {SourceRow(sid, a) : sid \in SpecimenIds, a \in UNION {Annotations[x] : x \in SpecimenIds}}

\* the states of the source: a row for some of the specimens, keyed by id
SourceStates ==
    UNION { {f \in [D -> SourceChoices] :
                \A sid \in D : \E a \in Annotations[sid] : f[sid] = SourceRow(sid, a)} :
            D \in SUBSET SpecimenIds }

\* how a call of morpho_db() can end: with the table, or with the exception
\* its import, connection or file access raised
MorphoDbOutcomes == {"ok", "ImportError", "pyodbc.Error", "IOError"}

\* morpho_db(): the whole source as a dict keyed by specimen id, or an exception
morpho_db(outcome) ==
    IF outcome = "ok"
    THEN [exc |-> "none", results |-> morpho_src]
    ELSE [exc |-> outcome, results |-> <<>>]

----------------------------------------------------------------------------
(* Content hashes *)

\* hashlib.md5(text.encode()).hexdigest(): the digest stands for its pre-image
md5(text) == <<"md5">> \o text

\* a hash column that is NULL
NoHash == <<"None">>

RECURSIVE ReprItems(_, _)
ReprItems(row, i) ==
    IF i > Len(RowFields) THEN <<>>
    ELSE <<"'", RowFields[i], "'", ":">> \o ReprValue(row[RowFields[i]])
         \o (IF i < Len(RowFields) THEN <<",">> ELSE <<>>)
         \o ReprItems(row, i + 1)

\* repr(cell_morpho) of a source row
Repr(row) == <<"{">> \o ReprItems(row, 1) \o <<"}">>

\* the hash create_db_entries stores: md5 of repr(cell_morpho)
StoredHash(cell_morpho) == md5(Repr(cell_morpho))

\* iterating a source row (a dict) yields its keys
Keys(row) == [i \in 1..Len(RowFields) |-> Str(RowFields[i])]

\* morpho_results.get(cell.id, [None]), as the sequence that filter() iterates
GetOrDefault(morpho_results, id) ==
    IF id \in DOMAIN morpho_results THEN Keys(morpho_results[id]) ELSE <<None>>

\* filter(None, items)
FilterNone(items) == SelectSeq(items, Truthy)

RECURSIVE Join(_, _)
\* sep.join(items), items being strings
Join(sep, items) ==
    IF Len(items) = 0 THEN <<>>
    ELSE IF Len(items) = 1 THEN <<items[1].s>>
    ELSE <<items[1].s, sep>> \o Join(sep, Tail(items))

\* the hash ready_jobs computes for cluster cell `id`
ReadyHash(morpho_results, id) ==
    md5(Join(";", FilterNone(GetOrDefault(morpho_results, id))))

----------------------------------------------------------------------------
(* The persistent store and the collaborators' data *)

\* dict.get(key): None when the key is missing
Get(d, key) == IF key \in DOMAIN d THEN d[key] ELSE None

ExperimentRows ==
    << [id |-> 1, ext_id |-> 1000, acq_timestamp |-> 1000,
        meta |-> [lims_cell_cluster_id |-> Num(10)], cells |-> <<1, 2>>],
       [id |-> 2, ext_id |-> 1004, acq_timestamp |-> 1004,
        meta |-> [lims_cell_cluster_id |-> None], cells |-> <<3, 4>>],
       [id |-> 3, ext_id |-> 1050, acq_timestamp |-> 1050,
        meta |-> [lims_cell_cluster_id |-> Num(11)], cells |-> <<>>],
       [id |-> 4, ext_id |-> 1060, acq_timestamp |-> 1060,
        meta |-> [lims_cell_cluster_id |-> Num(12)], cells |-> <<>>],
       [id |-> 5, ext_id |-> 1070, acq_timestamp |-> 1070,
        meta |-> [lims_cell_cluster_id |-> Num(13)], cells |-> <<>>],
       [id |-> 6, ext_id |-> 1051, acq_timestamp |-> 1051,
        meta |-> [lims_cell_cluster_id |-> Num(10)], cells |-> <<>>] >>

SliceRows ==
    << [id |-> 1, acq_timestamp |-> 2000],
       [id |-> 2, acq_timestamp |-> 2004] >>

CellRow(id, expt, specimen, transgenic) ==
    [id |-> id, ext_id |-> id, experiment_id |-> expt,
     meta |-> ("lims_specimen_id" :> specimen) @@
              ("transgenic_cell_class" :> transgenic),
     cell_class_nonsynaptic |-> transgenic]

CellRows ==
    (1 :> CellRow(1, 1, Num(101), None)) @@
    (2 :> CellRow(2, 1, Num(102), Str("in"))) @@
    (3 :> CellRow(3, 2, None, Str("ex"))) @@
    (4 :> CellRow(4, 2, None, None))

\* pip_meta.pipettes[ext_id].get('morphology'): what the experimenter wrote
user_morphology ==
    (1 :> Str("pyr")) @@ (2 :> Str("stellate")) @@ (3 :> Str("")) @@ (4 :> None)

\* a Python string as its characters, or None
NoneChars == [isNone |-> TRUE, chars |-> <<>>]
Chars(cs) == [isNone |-> FALSE, chars |-> cs]

\* lims.cell_layer(specimen id)
cell_layer ==
    (101 :> Chars(<<"L", "a", "y", "e", "r", "2", "/", "3">>)) @@
    (102 :> NoneChars)

RECURSIVE lstrip(_, _)
\* str.lstrip(chars): drops leading characters that are in `chars`
lstrip(cs, chars) ==
    IF Len(cs) > 0 /\ cs[1] \in chars THEN lstrip(Tail(cs), chars) ELSE cs

\* finished_jobs() of the experiment module, in items() order:
\* job id, completion time, success
finished_jobs ==
    << [job |-> 1000, mtime |-> 1, success |-> "True"],
       [job |-> 1004, mtime |-> 2, success |-> "True"],
       [job |-> 1050, mtime |-> 3, success |-> "True"],
       [job |-> 1051, mtime |-> 4, success |-> "False"],
       [job |-> 1052, mtime |-> 5, success |-> "None"],
       [job |-> 1060, mtime |-> 6, success |-> "True"],
       [job |-> 1070, mtime |-> 7, success |-> "True"] >>

JobIds == {finished_jobs[i].job : i \in 1..Len(finished_jobs)}

\* the jobs whose dependency succeeded: the ones the pipeline processes
ReadyJobIds ==
    {finished_jobs[i].job : i \in {k \in 1..Len(finished_jobs) :
                                      finished_jobs[k].success = "True"}}

\* datetime.now() is later than every completion time
NowValues == {finished_jobs[Len(finished_jobs)].mtime + d : d \in 1..ClockSpan}

\* what lims.cluster_cells returns: None, or the cells' ids (an id may be None)
NoCluster == [isNone |-> TRUE, cells |-> <<>>]
Cluster(ids) == [isNone |-> FALSE, cells |-> ids]

\* lims.cluster_cells(cluster id)
ClusterRows ==
    (10 :> Cluster(<<None, Num(101), Num(102)>>)) @@
    (11 :> NoCluster) @@
    (12 :> Cluster(<<>>)) @@
    (13 :> Cluster(<<None>>))

----------------------------------------------------------------------------
(* Results of operations *)

NoExc == [type |-> "none", value |-> None, cell |-> None, column |-> ""]
Exc(type) == [type |-> type, value |-> None, cell |-> None, column |-> ""]
\* Exception('Error parsing morphology annotation %s for cell %d from column %s')
ParseError(value, specimen, column) ==
    [type |-> "Exception", value |-> value, cell |-> specimen, column |-> column]

\* op(arg) was called and morpho_db() ended as `source` in it; it raised exc or
\* returned ready (ready_jobs) or rec (the lookups), added `added` to its
\* session and printed stdout
Ret(op, arg, source, exc, ready, rec, added, stdout) ==
    [op |-> op, arg |-> arg, source |-> source, exc |-> exc, ready |-> ready,
     rec |-> rec, added |-> added, stdout |-> stdout]

Init ==
    /\ experiment = ExperimentRows
    /\ slice = SliceRows
    /\ cell = CellRows
    /\ morphology = <<>>
    /\ morpho_src \in SourceStates
    /\ cluster_src = ClusterRows
    /\ ret = Ret("init", 0, "", NoExc, <<>>, <<>>, <<>>, <<>>)
    /\ NoPairs /\ NoFits /\ NoRuns

----------------------------------------------------------------------------
(* ready_jobs *)

\* session.query(db.Experiment).filter(db.Experiment.ext_id==expt_id).all()
ExperimentsByExtId(expt_id) ==
    SelectSeq(experiment, LAMBDA e : e.ext_id = expt_id)

\* str() of a specimen id
StrOf(v) == ReprValue(v)

\* session.query(db.Morphology).join(db.Cell)
\*     .filter(<Cell.meta lims_specimen_id> == str(cell.id)).all(),
\* read as the comparison of the JSON field with the id's text that the
\* filter is written to be
MorphologyOfSpecimen(id) ==
    SelectSeq(morphology,
              LAMBDA m : LET spec == Get(cell[m.cell_id].meta, "lims_specimen_id")
                         IN  ~IsNone(spec) /\ StrOf(spec) = StrOf(id))

\* HashCompare with a cell that has no single stored row counted as unchanged
HashCompare_MissingIsFresh(morpho_results, id) ==
    LET morpho_db_hash == ReadyHash(morpho_results, id.n)
        cell_morpho_rec == MorphologyOfSpecimen(id)
    IN  IF Len(cell_morpho_rec) = 1
        THEN morpho_db_hash = cell_morpho_rec[1].morpho_db_hash
        ELSE TRUE

\* one entry of cell_hash_compare, for a cluster cell whose id is not None
HashCompare(morpho_results, id) ==
    LET morpho_db_hash == ReadyHash(morpho_results, id.n)
        cell_morpho_rec == MorphologyOfSpecimen(id)
    IN  IF Len(cell_morpho_rec) = 1
        THEN morpho_db_hash = cell_morpho_rec[1].morpho_db_hash
        ELSE FALSE

\* cell_hash_compare: cells whose id is None are skipped
cell_hash_compare(morpho_results, cluster_cells) ==
    LET ids == SelectSeq(cluster_cells, LAMBDA id : ~IsNone(id))
    IN  [i \in 1..Len(ids) |-> HashCompare(morpho_results, ids[i])]

\* all(items)
All(items) == \A i \in 1..Len(items) : items[i]

\* dep_time with a job that has no cluster id treated as stale
dep_time_NoClusterIsStale(morpho_results, expt_mtime, expt, now) ==
    LET cluster == Get(expt.meta, "lims_cell_cluster_id")
    IN  IF IsNone(cluster) THEN now
        ELSE LET cluster_cells == cluster_src[cluster.n]
             IN  IF cluster_cells.isNone THEN expt_mtime
                 ELSE IF All(cell_hash_compare(morpho_results, cluster_cells.cells)) = FALSE
                      THEN now
                      ELSE expt_mtime

\* the dep_time ready_jobs gives a job whose dependency succeeded
dep_time(morpho_results, expt_mtime, expt, now) ==
    LET cluster == Get(expt.meta, "lims_cell_cluster_id")
    IN  IF IsNone(cluster) THEN expt_mtime
        ELSE LET cluster_cells == cluster_src[cluster.n]
             IN  IF cluster_cells.isNone THEN expt_mtime
                 ELSE IF All(cell_hash_compare(morpho_results, cluster_cells.cells)) = FALSE
                      THEN now
                      ELSE expt_mtime

\* Skipped with only unfinished jobs skipped (`if success is None`)
Skipped_OnlyNone(success) == success = "None"

\* the test that skips a job of the dependency module
Skipped(success) == success # "True"

RECURSIVE ready_loop(_, _, _, _)
\* the loop over expts.items(), from item i on, appending to `ready`:
\* [exc, ready]
ready_loop(morpho_results, i, ready, now) ==
    IF i > Len(finished_jobs) THEN [exc |-> NoExc, ready |-> ready]
    ELSE LET item == finished_jobs[i]
             found == ExperimentsByExtId(item.job)
         IN  IF Skipped(item.success)
             THEN ready_loop(morpho_results, i + 1, ready, now)
             ELSE IF Len(found) = 0
             THEN [exc |-> Exc("IndexError"), ready |-> <<>>]
             ELSE LET entry == [job |-> item.job,
                                dep_time |-> dep_time(morpho_results, item.mtime,
                                                      found[1], now)]
                  IN  ready_loop(morpho_results, i + 1, Append(ready, entry), now)

\* the exceptions of morpho_db() that ready_jobs catches
Caught(exc) == exc = "ImportError"

\* ready_jobs(): [exc, ready, stdout]
ready_jobs(outcome, now) ==
    LET got == morpho_db(outcome)
    IN  IF got.exc # "none"
        THEN IF Caught(got.exc)
             THEN [exc |-> NoExc, ready |-> <<>>,
                   stdout |-> <<[text |-> "Skipping morphology", arg |-> Str(got.exc)]>>]
             ELSE [exc |-> Exc(got.exc), ready |-> <<>>, stdout |-> <<>>]
        ELSE LET r == ready_loop(got.results, 1, <<>>, now)
             IN  [exc |-> r.exc, ready |-> r.ready, stdout |-> <<>>]

\* a ready_jobs that clears the Morphology records it compared
ReadyJobs_ClearsMorphology ==
    \E outcome \in MorphoDbOutcomes, now \in NowValues :
        LET r == ready_jobs(outcome, now)
        IN  /\ ret' = Ret("ready_jobs", 0, outcome, r.exc, r.ready, <<>>, <<>>, r.stdout)
            /\ morphology' = IF r.ready = <<>> THEN morphology ELSE <<>>
            /\ UNCHANGED <<experiment, slice, cell, morpho_src, cluster_src, extVars>>

ReadyJobs ==
    \E outcome \in MorphoDbOutcomes, now \in NowValues :
        LET r == ready_jobs(outcome, now)
        IN  /\ ret' = Ret("ready_jobs", 0, outcome, r.exc, r.ready, <<>>, <<>>, r.stdout)
            /\ UNCHANGED <<experiment, slice, cell, morphology, morpho_src, cluster_src, extVars>>

----------------------------------------------------------------------------
(* Timestamp lookups of SynphysDatabase *)

\* the backward-compatibility tolerance, 0.01 s
Tolerance == 10

Abs(x) == IF x < 0 THEN -x ELSE x

\* slice_from_timestamp(ts): [exc, rec]
slice_from_timestamp(ts) ==
    LET slices == SelectSeq(slice, LAMBDA r : r.acq_timestamp = ts)
    IN  IF Len(slices) = 0 THEN [exc |-> Exc("KeyError"), rec |-> <<>>]
        ELSE IF Len(slices) > 1 THEN [exc |-> Exc("KeyError"), rec |-> <<>>]
        ELSE [exc |-> NoExc, rec |-> <<slices[1]>>]

\* the rows the backward-compatibility loop accepts, in the order it visits them
WithinTolerance(ts) ==
    SelectSeq(experiment, LAMBDA e : Abs(e.acq_timestamp - ts) < Tolerance)

\* experiment_from_timestamp(ts): [exc, rec]
experiment_from_timestamp(ts) ==
    LET expts == SelectSeq(experiment, LAMBDA e : e.acq_timestamp = ts)
    IN  IF Len(expts) = 0
        THEN IF Len(WithinTolerance(ts)) > 0
             THEN [exc |-> NoExc, rec |-> <<WithinTolerance(ts)[1]>>]
             ELSE [exc |-> Exc("KeyError"), rec |-> <<>>]
        ELSE IF Len(expts) > 1 THEN [exc |-> Exc("RuntimeError"), rec |-> <<>>]
        ELSE [exc |-> NoExc, rec |-> <<expts[1]>>]

\* the timestamps the stored rows may carry and the lookups are called with
Timestamps == {1000, 1004, 1050}
Queries == Timestamps \cup {1002}

SliceFromTimestamp ==
    \E ts \in Queries :
        LET r == slice_from_timestamp(ts)
        IN  /\ ret' = Ret("slice_from_timestamp", ts, "", r.exc, <<>>, r.rec, <<>>, <<>>)
            /\ UNCHANGED <<experiment, slice, cell, morphology, morpho_src, cluster_src, extVars>>

ExperimentFromTimestamp ==
    \E ts \in Queries :
        LET r == experiment_from_timestamp(ts)
        IN  /\ ret' = Ret("experiment_from_timestamp", ts, "", r.exc, <<>>, r.rec, <<>>, <<>>)
            /\ UNCHANGED <<experiment, slice, cell, morphology, morpho_src, cluster_src, extVars>>

----------------------------------------------------------------------------
(* create_db_entries *)

\* pyramidal_of without the message for an unknown string
pyramidal_of_Silent(user_morpho) ==
    IF user_morpho = Str("pyr")
    THEN [pyramidal |-> True, stdout |-> <<>>]
    ELSE [pyramidal |-> None, stdout |-> <<>>]

\* the experimenter's morphology string: [pyramidal, stdout]
pyramidal_of(user_morpho) ==
    IF IsNone(user_morpho) \/ user_morpho = Str("")
    THEN [pyramidal |-> None, stdout |-> <<>>]
    ELSE IF user_morpho = Str("pyr")
    THEN [pyramidal |-> True, stdout |-> <<>>]
    ELSE [pyramidal |-> None,
          stdout |-> <<[text |-> "Unknown morphology string", arg |-> user_morpho]>>]

\* the cortical layer of a specimen: lims.cell_layer(...).lstrip('Layer')
cortical_layer_of(specimen) ==
    IF IsNone(specimen) THEN NoneChars
    ELSE LET cortical_layer == cell_layer[specimen.n]
         IN  IF cortical_layer.isNone THEN NoneChars
             ELSE Chars(lstrip(cortical_layer.chars, {"L", "a", "y", "e", "r"}))

\* [t for t in col_type if t == data]
Matches(members, data) ==
    SelectSeq(members, LAMBDA t : data.kind = "str" /\ data.s = t)

\* parse_column that keeps an enumerated value it cannot match instead of raising
parse_column_KeepsUnmatched(col_type, members, data) ==
    IF IsNone(data) THEN [ok |-> TRUE, data |-> None]
    ELSE IF col_type = "list"
    THEN [ok |-> TRUE, data |-> data]
    ELSE IF col_type = "float"
    THEN LET f == float(data)
         IN  IF f.ok THEN [ok |-> TRUE, data |-> f.v] ELSE [ok |-> FALSE, data |-> data]
    ELSE [ok |-> TRUE, data |-> data]

\* one column of a source row: [ok, data]; ok = FALSE is the raise
parse_column(col_type, members, data) ==
    IF IsNone(data) THEN [ok |-> TRUE, data |-> None]
    ELSE IF col_type = "list"
    THEN LET d == Matches(members, data)
         IN  IF Len(d) = 1 THEN [ok |-> TRUE, data |-> Str(d[1])]
             ELSE [ok |-> FALSE, data |-> data]
    ELSE IF col_type = "float"
    THEN LET f == float(data)
         IN  IF f.ok THEN [ok |-> TRUE, data |-> f.v] ELSE [ok |-> FALSE, data |-> data]
    ELSE [ok |-> TRUE, data |-> data]

ParsedColumn(cell_morpho, morpho_db_name) ==
    parse_column(col_names[morpho_db_name].type, col_names[morpho_db_name].members,
                 cell_morpho[morpho_db_name])

\* the columns of col_names, in order, at which the loop raises for this row
BadColumns(cell_morpho) ==
    SelectSeq(ColOrder, LAMBDA c : ~ParsedColumn(cell_morpho, c).ok)

\* the source column a Morphology column is filled from
SourceColumn(col_name) == CHOOSE c \in DOMAIN col_names : col_names[c].name = col_name

\* Morphology columns of a cell without a source row
NullColumns == [c \in ColNames |-> None]

\* process_cell without the branch for a morpho class that conflicts with the
\* transgenic class
process_cell_ConflictKeepsClass(morpho_results, c) ==
    LET user_morpho == user_morphology[c.ext_id]
        cell_specimen_id == Get(c.meta, "lims_specimen_id")
        has_morpho == ~IsNone(cell_specimen_id) /\ cell_specimen_id.n \in DOMAIN morpho_results
        p == pyramidal_of(user_morpho)
        bad == IF has_morpho THEN BadColumns(morpho_results[cell_specimen_id.n]) ELSE <<>>
        cols == IF has_morpho
                THEN [n \in ColNames |->
                        ParsedColumn(morpho_results[cell_specimen_id.n], SourceColumn(n)).data]
                ELSE NullColumns
        row == [cell_id |-> c.id,
                pyramidal |-> p.pyramidal,
                cortical_layer |-> cortical_layer_of(cell_specimen_id),
                morpho_db_hash |-> IF has_morpho
                                   THEN StoredHash(morpho_results[cell_specimen_id.n])
                                   ELSE NoHash,
                has_columns |-> has_morpho,
                cols |-> cols]
        dtype == IF has_morpho THEN cols["dendrite_type"] ELSE None
        morpho_class == IF dtype = Str("spiny") THEN Str("ex")
                        ELSE IF dtype = Str("aspiny") THEN Str("in")
                        ELSE None
        cell_meta == ("morpho_cell_class" :> morpho_class) @@ c.meta
        transgenic_class == cell_meta["transgenic_cell_class"]
        nonsynaptic == IF IsNone(transgenic_class) THEN morpho_class
                       ELSE c.cell_class_nonsynaptic
    IN  IF Len(bad) > 0
        THEN [exc |-> ParseError(morpho_results[cell_specimen_id.n][bad[1]],
                                 cell_specimen_id, bad[1]),
              morphology |-> <<>>, cell |-> c, stdout |-> p.stdout]
        ELSE [exc |-> NoExc, morphology |-> <<row>>,
              cell |-> [c EXCEPT !.meta = cell_meta, !.cell_class_nonsynaptic = nonsynaptic],
              stdout |-> p.stdout]

\* what the loop body does for one cell:
\* [exc, morphology (the new row), cell (the updated Cell row), stdout]
process_cell(morpho_results, c) ==
    LET user_morpho == user_morphology[c.ext_id]
        cell_specimen_id == Get(c.meta, "lims_specimen_id")
        has_morpho == ~IsNone(cell_specimen_id) /\ cell_specimen_id.n \in DOMAIN morpho_results
        p == pyramidal_of(user_morpho)
        bad == IF has_morpho THEN BadColumns(morpho_results[cell_specimen_id.n]) ELSE <<>>
        cols == IF has_morpho
                THEN [n \in ColNames |->
                        ParsedColumn(morpho_results[cell_specimen_id.n], SourceColumn(n)).data]
                ELSE NullColumns
        row == [cell_id |-> c.id,
                pyramidal |-> p.pyramidal,
                cortical_layer |-> cortical_layer_of(cell_specimen_id),
                morpho_db_hash |-> IF has_morpho
                                   THEN StoredHash(morpho_results[cell_specimen_id.n])
                                   ELSE NoHash,
                has_columns |-> has_morpho,
                cols |-> cols]
        dtype == IF has_morpho THEN cols["dendrite_type"] ELSE None
        morpho_class == IF dtype = Str("spiny") THEN Str("ex")
                        ELSE IF dtype = Str("aspiny") THEN Str("in")
                        ELSE None
        cell_meta == ("morpho_cell_class" :> morpho_class) @@ c.meta
        transgenic_class == cell_meta["transgenic_cell_class"]
        nonsynaptic == IF IsNone(transgenic_class) THEN morpho_class
                       ELSE IF ~IsNone(morpho_class) /\ transgenic_class # morpho_class
                       THEN None
                       ELSE c.cell_class_nonsynaptic
    IN  IF Len(bad) > 0
        THEN [exc |-> ParseError(morpho_results[cell_specimen_id.n][bad[1]],
                                 cell_specimen_id, bad[1]),
              morphology |-> <<>>, cell |-> c, stdout |-> p.stdout]
        ELSE [exc |-> NoExc, morphology |-> <<row>>,
              cell |-> [c EXCEPT !.meta = cell_meta, !.cell_class_nonsynaptic = nonsynaptic],
              stdout |-> p.stdout]

RECURSIVE cell_loop(_, _, _, _)
\* the loop over expt.cells.items() from item i on;
\* acc = [source, exc, added, cell, stdout]
cell_loop(morpho_results, cells, i, acc) ==
    IF i > Len(cells) THEN acc
    ELSE LET r == process_cell(morpho_results, acc.cell[cells[i]])
             next == [source |-> acc.source,
                      exc |-> r.exc,
                      added |-> acc.added \o r.morphology,
                      cell |-> [acc.cell EXCEPT ![cells[i]] = r.cell],
                      stdout |-> acc.stdout \o r.stdout]
         IN  IF r.exc # NoExc THEN next
             ELSE cell_loop(morpho_results, cells, i + 1, next)

\* create_db_entries(job, session): [source, exc, added, cell, stdout];
\* source is how morpho_db() ended, "" when it was not reached
create_db_entries(job_id, outcome) ==
    LET found == experiment_from_timestamp(job_id)
        got == morpho_db(outcome)
        start == [source |-> "", exc |-> NoExc, added |-> <<>>, cell |-> cell,
                  stdout |-> <<>>]
    IN  IF found.exc # NoExc THEN [start EXCEPT !.exc = found.exc]
        ELSE IF got.exc # "none" THEN [start EXCEPT !.exc = Exc(got.exc), !.source = outcome]
        ELSE cell_loop(got.results, found.rec[1].cells, 1, [start EXCEPT !.source = outcome])

\* the job runner commits the session when create_db_entries returns and rolls
\* it back when it raises: [morphology, cell]
commit(r) ==
    IF r.exc = NoExc
    THEN [morphology |-> morphology \o r.added, cell |-> r.cell]
    ELSE [morphology |-> morphology, cell |-> cell]

CreateDbEntries ==
    \E job_id \in ReadyJobIds, outcome \in MorphoDbOutcomes :
        LET r == create_db_entries(job_id, outcome)
            c == commit(r)
        IN  /\ Len(c.morphology) <= MaxMorphology
            /\ morphology' = c.morphology
            /\ cell' = c.cell
            /\ ret' = Ret("create_db_entries", job_id, r.source, r.exc, <<>>, <<>>, r.added, r.stdout)
            /\ UNCHANGED <<experiment, slice, morpho_src, cluster_src, extVars>>

\* job_records(job_ids): the Morphology rows of the cells of these experiments
job_records(job_ids) ==
    SelectSeq(morphology,
              LAMBDA m : \E i \in 1..Len(experiment) :
                            /\ cell[m.cell_id].experiment_id = experiment[i].id
                            /\ experiment[i].ext_id \in job_ids)

\* drop_jobs deletes the rows job_records returns
DropJobs ==
    \E job_id \in JobIds :
        LET dropped == job_records({job_id})
        IN  /\ Len(dropped) > 0
            /\ morphology' = SelectSeq(morphology,
                   LAMBDA m : \A i \in 1..Len(dropped) : dropped[i] # m)
            /\ ret' = Ret("drop_jobs", job_id, "", NoExc, <<>>, <<>>, <<>>, <<>>)
            /\ UNCHANGED <<experiment, slice, cell, morpho_src, cluster_src, extVars>>

----------------------------------------------------------------------------
(* The external source changes between runs of the pipeline *)

SourceChange ==
    /\ morpho_src' \in SourceStates \ {morpho_src}
    /\ \E sid \in SpecimenIds :
           \A other \in SpecimenIds \ {sid} :
               /\ (other \in DOMAIN morpho_src') = (other \in DOMAIN morpho_src)
               /\ other \in DOMAIN morpho_src => morpho_src'[other] = morpho_src[other]
    /\ ret' = Ret("source_change", 0, "", NoExc, <<>>, <<>>, <<>>, <<>>)
    /\ UNCHANGED <<experiment, slice, cell, morphology, cluster_src, extVars>>

Next ==
    \/ ReadyJobs
    \/ CreateDbEntries
    \/ DropJobs
    \/ SourceChange

Spec == Init /\ [][Next]_vars

----------------------------------------------------------------------------
(* The timestamp lookups on their own, over the tables they may meet *)

ExperimentAt(id, ts) ==
    [id |-> id, ext_id |-> ts, acq_timestamp |-> ts,
     meta |-> [lims_cell_cluster_id |-> None], cells |-> <<>>]

InitLookup ==
    /\ experiment \in {<<ExperimentAt(1, a), ExperimentAt(2, b), ExperimentAt(3, c)>> :
                           a \in Timestamps, b \in Timestamps, c \in Timestamps}
    /\ slice \in {<<[id |-> 1, acq_timestamp |-> a],
                     [id |-> 2, acq_timestamp |-> b]>> :
                           a \in Timestamps, b \in Timestamps}
    /\ cell = CellRows
    /\ morphology = <<>>
    /\ morpho_src = <<>>
    /\ cluster_src = ClusterRows
    /\ ret = Ret("init", 0, "", NoExc, <<>>, <<>>, <<>>, <<>>)
    /\ NoPairs /\ NoFits /\ NoRuns

NextLookup ==
    \/ SliceFromTimestamp
    \/ ExperimentFromTimestamp

SpecLookup == InitLookup /\ [][NextLookup]_vars

----------------------------------------------------------------------------
(* exp_fit_test.py: float arithmetic *)

\* A float is Num(k), k counting units of 1/Unit, or one of NaN, Inf, NegInf.
\* numpy divides by zero without raising: 0/0 is nan, x/0 is inf or -inf.
Unit == 10^4
NaN == [kind |-> "nan", s |-> "", n |-> 0]
Inf == [kind |-> "inf", s |-> "", n |-> 1]
NegInf == [kind |-> "inf", s |-> "", n |-> -1]

Finite(a) == a.kind = "num"
Sign(a) == IF a.n > 0 THEN 1 ELSE IF a.n < 0 THEN -1 ELSE 0
Signed(k) == IF k > 0 THEN Inf ELSE NegInf

FNeg(a) == IF a.kind = "nan" THEN NaN ELSE [a EXCEPT !.n = -a.n]

FAdd(a, b) ==
    CASE a.kind = "nan" \/ b.kind = "nan" -> NaN
      [] Finite(a) /\ Finite(b)            -> Num(a.n + b.n)
      [] Finite(a)                         -> b
      [] Finite(b)                         -> a
      [] OTHER                             -> IF a.n = b.n THEN a ELSE NaN

FSub(a, b) == FAdd(a, FNeg(b))

FMul(a, b) ==
    CASE a.kind = "nan" \/ b.kind = "nan" -> NaN
      [] Finite(a) /\ Finite(b)            -> Num((a.n * b.n) \div Unit)
      [] Sign(a) * Sign(b) = 0             -> NaN
      [] OTHER                             -> Signed(Sign(a) * Sign(b))

FDiv(a, b) ==
    CASE a.kind = "nan" \/ b.kind = "nan" -> NaN
      [] Finite(a) /\ Finite(b) /\ b.n # 0 -> Num((a.n * Unit) \div b.n)
      [] Finite(a) /\ Finite(b)            -> IF a.n = 0 THEN NaN ELSE Signed(a.n)
      [] Finite(a)                         -> Num(0)
      [] Finite(b)                         -> Signed(a.n * (IF b.n < 0 THEN -1 ELSE 1))
      [] OTHER                             -> NaN

\* numpy.exp on the grid of whole arguments; an argument between two grid
\* points takes the value at the grid point below it
ExpGrid == <<Unit, 3679, 1353, 498, 183>>

FExp(a) ==
    CASE a.kind = "nan"  -> NaN
      [] a.kind = "inf"  -> IF a.n > 0 THEN Inf ELSE Num(0)
      [] a.n > 0         -> Inf
      [] OTHER           -> LET k == ((-a.n) + Unit - 1) \div Unit
                            IN  IF k + 1 \in DOMAIN ExpGrid THEN Num(ExpGrid[k + 1])
                                ELSE Num(0)

RECURSIVE SqrtBetween(_, _, _)
SqrtBetween(k, lo, hi) ==
    IF lo >= hi THEN lo
    ELSE LET mid == (lo + hi + 1) \div 2
         IN  IF mid * mid <= k THEN SqrtBetween(k, mid, hi)
             ELSE SqrtBetween(k, lo, mid - 1)

\* numpy.sqrt of a sum of squares
FSqrt(a) ==
    CASE a.kind = "nan" -> NaN
      [] a.kind = "inf" -> IF a.n > 0 THEN Inf ELSE NaN
      [] a.n < 0        -> NaN
      [] OTHER          -> Num(SqrtBetween(a.n * Unit, 0, 4 * Unit))

RECURSIVE FSum(_)
FSum(xs) == IF xs = <<>> THEN Num(0) ELSE FAdd(Head(xs), FSum(Tail(xs)))

\* elementwise - and * of numpy arrays
Minus(xs, ys) == [i \in DOMAIN xs |-> FSub(xs[i], ys[i])]
Times(xs, ys) == [i \in DOMAIN xs |-> FMul(xs[i], ys[i])]

----------------------------------------------------------------------------
(* exp_fit_test.py: samples and the minimizer *)

\* most points of a sample
MaxPoints == 2
\* spacing of the sample times, in units of 1/Unit s
Step == 500
\* -70 mV and 30 mV
Amplitudes == {Num(-700), Num(300)}

\* generator.t: numpy.arange(0, duration, dt)
SampleTimes(n) == [i \in 1..n |-> Num((i - 1) * Step)]

\* make_example(): any waveform over the generator's times
Samples ==
    UNION {{[y |-> y, t |-> SampleTimes(n)] : y \in [1..n -> Amplitudes]} :
               n \in 1..MaxPoints}

Last(xs) == xs[Len(xs)]

\* time.time() - start; one reading stands for all
Elapsed == {Num(1)}

\* scipy.optimize.minimize(fun, x0, ...): an OptimizeResult, converged or
\* not, whose x is x0 or a vector the search ended on
Moved(x0) ==
    [i \in DOMAIN x0 |-> IF Finite(x0[i]) THEN Num(x0[i].n + 100 * i) ELSE x0[i]]

minimize(x0, jac) ==
    {[x |-> x, fun |-> Num(25), nfev |-> IF jac THEN 1 ELSE 2, success |-> ok] :
         x \in {x0, Moved(x0)}, ok \in BOOLEAN}

\* a call of the fit engine: what it was given, raised and returned, and the
\* row of examples[] its result was copied to
FitRet(op, self, args, exc, result, ex) ==
    [op |-> op, self |-> self, args |-> args, exc |-> exc,
     result |-> result, ex |-> ex]

\* ex[pfx+k] = v for every item of the result; a key pfx+k is <<pfx, k>>
collect(pfx, result) ==
    [key \in {<<pfx, k>> : k \in DOMAIN result} |-> result[key[2]]]

----------------------------------------------------------------------------
(* ExpFitMethod *)

\* the instances the script lists: name -> use_jac
ExpMethods ==
    ("minimize_wo_jac" :> FALSE) @@
    ("minimize_w_jac_slsqp" :> TRUE) @@
    ("minimize_w_jac_bfgs" :> TRUE)

NoJac == None
\* the tuple of functions the _compile_jac of one construction makes
Jac(name) == [kind |-> "jac", s |-> name, n |-> 0]

\* __init__ up to the test of line 38: where the construction goes next
ExpFitMethod_init(use_jac) ==
    IF use_jac /\ jac_fns = NoJac THEN "compile" ELSE "done"

ExpFitMethodInit ==
    \E name \in DOMAIN ExpMethods :
        /\ exp_methods[name] = "none"
        /\ exp_methods' =
               [exp_methods EXCEPT ![name] = ExpFitMethod_init(ExpMethods[name])]
        /\ UNCHANGED <<jac_fns, ml_method, model, fit_ret>>
        /\ UNCHANGED <<storeVars, pairVars, hpcVars>>

\* _compile_jac, called by an __init__ that found the cache empty
compile_jac(name) == Jac(name)

CompileJac ==
    \E name \in DOMAIN ExpMethods :
        /\ exp_methods[name] = "compile"
        /\ jac_fns' = compile_jac(name)
        /\ exp_methods' = [exp_methods EXCEPT ![name] = "done"]
        /\ UNCHANGED <<ml_method, model, fit_ret>>
        /\ UNCHANGED <<storeVars, pairVars, hpcVars>>

exp_fn(params, t) ==
    LET yoffset == params[1]
        amp == params[2]
        tau == params[3]
    IN  [i \in DOMAIN t |-> FAdd(yoffset, FMul(amp, FExp(FDiv(FNeg(t[i]), tau))))]

\* numpy.linalg.norm
norm(xs) == FSqrt(FSum(Times(xs, xs)))

exp_err_fn(params, t, y) ==
    LET residual == Minus(y, exp_fn(params, t))
    IN  norm(residual)

exp_jac_fn(params, t, y) ==
    LET yoff == params[1]
        amp == params[2]
        tau == params[3]
        N == Num(Len(y) * Unit)
        exp_t_tau == [i \in DOMAIN t |-> FExp(FDiv(FNeg(t[i]), tau))]
        model_y == [i \in DOMAIN t |-> FAdd(yoff, FMul(amp, exp_t_tau[i]))]
        resid == Minus(model_y, y)
        nrm == FSqrt(FSum(Times(resid, resid)))
        dyoff == FDiv(FSub(FAdd(FMul(N, yoff),
                                   FSum([i \in DOMAIN t |-> FMul(amp, exp_t_tau[i])])),
                              FSum(y)), nrm)
        damp == FDiv(FSum(Times(resid, exp_t_tau)), nrm)
        dtau == FDiv(FSum([i \in DOMAIN t |->
                            FDiv(FMul(FMul(FMul(amp, resid[i]), exp_t_tau[i]), t[i]),
                                 FMul(tau, tau))]), nrm)
    IN  <<dyoff, damp, dtau>>

\* a guess that takes the offset from the first amplitude
exp_init_FirstAmplitude(y, t) == <<y[1], FSub(y[1], Last(y)), FSub(Last(t), t[1])>>

\* lines 55-58
exp_init(y, t) == <<Last(y), FSub(y[1], Last(y)), FSub(Last(t), t[1])>>

\* a fit that falls back to its guess when the minimizer did not converge
ExpFitMethod_fit_GuessOnFailure(y, t, fit, fit_time) ==
    LET init == exp_init(y, t)
        x == IF fit.success THEN fit.x ELSE init
    IN  [fit |-> fit,
         yoffset |-> x[1],
         amp |-> x[2],
         tau |-> x[3],
         init_yoffset |-> init[1],
         init_amp |-> init[2],
         init_tau |-> init[3],
         err |-> fit.fun,
         nfev |-> fit.nfev,
         success |-> fit.success,
         fit_time |-> fit_time]

ExpFitMethod_fit(y, t, fit, fit_time) ==
    LET init == exp_init(y, t)
    IN  [fit |-> fit,
         yoffset |-> fit.x[1],
         amp |-> fit.x[2],
         tau |-> fit.x[3],
         init_yoffset |-> init[1],
         init_amp |-> init[2],
         init_tau |-> init[3],
         err |-> fit.fun,
         nfev |-> fit.nfev,
         success |-> fit.success,
         fit_time |-> fit_time]

ExpFit ==
    \E name \in DOMAIN ExpMethods, smp \in Samples, fit_time \in Elapsed :
        /\ exp_methods[name] = "done"
        /\ \E fit \in minimize(exp_init(smp.y, smp.t), ExpMethods[name]) :
               LET result == ExpFitMethod_fit(smp.y, smp.t, fit, fit_time)
               IN  fit_ret' = FitRet("ExpFitMethod.fit", name, smp, NoExc, result,
                                     collect(name, result))
        /\ UNCHANGED <<jac_fns, exp_methods, ml_method, model>>
        /\ UNCHANGED <<storeVars, pairVars, hpcVars>>

\* the points the minimizer asks the gradient at: x0 and where it moves
GradientPoints(smp) ==
    LET x0 == exp_init(smp.y, smp.t)
    IN  {x0, Moved(x0), <<Num(-700), Num(1000), Num(Step)>>}

ExpJacFn ==
    \E name \in DOMAIN ExpMethods, smp \in Samples :
        /\ exp_methods[name] = "done"
        /\ ExpMethods[name]
        /\ \E params \in GradientPoints(smp) :
               fit_ret' = FitRet("exp_jac_fn", name,
                                 [params |-> params, t |-> smp.t, y |-> smp.y],
                                 NoExc, exp_jac_fn(params, smp.t, smp.y), None)
        /\ UNCHANGED <<jac_fns, exp_methods, ml_method, model>>
        /\ UNCHANGED <<storeVars, pairVars, hpcVars>>

ExpFitMethod_eval(result, t) ==
    LET x == <<result.yoffset, result.amp, result.tau>>
    IN  exp_fn(x, t)

\* method.eval(result, t) on the result of the fit before it
ExpEval ==
    /\ fit_ret.op = "ExpFitMethod.fit"
    /\ fit_ret' = FitRet("ExpFitMethod.eval", fit_ret.self,
                         [result |-> fit_ret.result, t |-> fit_ret.args.t], NoExc,
                         ExpFitMethod_eval(fit_ret.result, fit_ret.args.t), None)
    /\ UNCHANGED <<jac_fns, exp_methods, ml_method, model>>
    /\ UNCHANGED <<storeVars, pairVars, hpcVars>>

----------------------------------------------------------------------------
(* PspFitMethod *)

\* lines 182-186; decay_tau / 3. is the float division
psp_init(y, t) ==
    LET yoff == Last(y)
        amp == FSub(y[1], yoff)
        decay_tau == FSub(Last(t), t[1])
        rise_time == FDiv(decay_tau, Num(3 * Unit))
    IN  <<yoff, amp, rise_time, decay_tau>>

PspFitMethod_fit(y, t, fit, fit_time) ==
    LET init == psp_init(y, t)
    IN  [fit |-> fit,
         yoffset |-> fit.x[1],
         amp |-> fit.x[2],
         rise_time |-> fit.x[3],
         decay_tau |-> fit.x[4],
         init_yoffset |-> init[1],
         init_amp |-> init[2],
         init_rise_time |-> init[3],
         init_decay_tau |-> init[4],
         err |-> fit.fun,
         nfev |-> fit.nfev,
         success |-> fit.success,
         fit_time |-> fit_time]

\* lines 187-192: the box constraints handed to the minimizer with the
\* initial guess, (low, high) for yoffset, amp, rise_time and decay_tau;
\* 0.1e-3 is 1, 20e-3 is 200, 1e-3 is 10 and 200e-3 is 2000 in units of
\* 1/Unit
psp_bounds ==
    << <<Num(-Unit), Num(Unit)>>,
       <<Num(-Unit), Num(Unit)>>,
       <<Num(1), Num(200)>>,
       <<Num(10), Num(2000)>> >>

\* line 351, PspGenerator(duration=0.1, ...), in units of 1/Unit
duration ==
    1000

\* line 335
sample_rate ==
    50000

\* lines 293-294: numpy.arange(0, duration, dt) with dt = 1.0 / sample_rate
\* has duration * sample_rate points, point i at time (i - 1) * dt
PspGenerator_len ==
    (duration * sample_rate) \div Unit

PspGenerator_t(i) ==
    Num(((i - 1) * Unit) \div sample_rate)

\* The samples of the script's generator, thinned to their first and last
\* point: PspFitMethod.fit reads y[0], y[-1], t[0] and t[-1] only, the rest
\* of the sample goes to the minimizer.
PspSamples ==
    {[y |-> y, t |-> <<PspGenerator_t(1), PspGenerator_t(PspGenerator_len)>>] :
        y \in [1..2 -> Amplitudes]}

\* methods[0] of the script, PspFitMethod(name='minimize')
PspFit ==
    \E smp \in Samples \cup PspSamples, fit_time \in Elapsed :
        /\ \E fit \in minimize(psp_init(smp.y, smp.t), FALSE) :
               LET result == PspFitMethod_fit(smp.y, smp.t, fit, fit_time)
               IN  fit_ret' = FitRet("PspFitMethod.fit", "minimize", smp, NoExc,
                                     result, collect("minimize", result))
        /\ UNCHANGED <<jac_fns, exp_methods, ml_method, model>>
        /\ UNCHANGED <<storeVars, pairVars, hpcVars>>

InitFit ==
    /\ experiment = <<>> /\ slice = <<>> /\ cell = <<>> /\ morphology = <<>>
    /\ morpho_src = <<>> /\ cluster_src = <<>>
    /\ ret = Ret("init", 0, "", NoExc, <<>>, <<>>, <<>>, <<>>)
    /\ NoPairs /\ NoRuns
    /\ jac_fns = NoJac
    /\ exp_methods = [name \in DOMAIN ExpMethods |-> "none"]
    /\ ml_method = None
    /\ model = None
    /\ fit_ret = [op |-> "init"]

NextFit ==
    \/ ExpFitMethodInit
    \/ CompileJac
    \/ ExpFit
    \/ ExpJacFn
    \/ ExpEval
    \/ PspFit

SpecFit == InitFit /\ [][NextFit]_vars

----------------------------------------------------------------------------
(* PspMLMethod *)

\* a keras model; n stands for its weights
Sequential(n) == [kind |-> "model", s |-> "", n |-> n]
\* the model a caller builds and passes to PspMLMethod(name, model=...)
GivenModel == Sequential(1)
\* the model the script builds in lines 385-388
ScriptModel == Sequential(2)

\* model.predict(y[None, :])[0]: four outputs, a regression on the input
predict(m, x) == [i \in 1..4 |-> FAdd(Num(m.n * i), x[1])]

\* numpy.ndarray.std
std(y) ==
    LET N == Num(Len(y) * Unit)
        mean == FDiv(FSum(y), N)
        dev == [i \in DOMAIN y |-> FSub(y[i], mean)]
    IN  FSqrt(FDiv(FSum(Times(dev, dev)), N))

\* __init__
PspMLMethod_init(name, m) == [name |-> name, model |-> m]

PspMLMethodInit ==
    \E m \in {None, GivenModel} :
        /\ ml_method' = PspMLMethod_init("nn_predict", m)
        /\ UNCHANGED <<jac_fns, exp_methods, model, fit_ret>>
        /\ UNCHANGED <<storeVars, pairVars, hpcVars>>

\* lines 385-389: the script builds a model, binds it to the module-level
\* name `model` and gives it to ml_method
Train ==
    /\ ml_method # None
    /\ model = None
    /\ model' = ScriptModel
    /\ ml_method' = [ml_method EXCEPT !.model = ScriptModel]
    /\ UNCHANGED <<jac_fns, exp_methods, fit_ret>>
    /\ UNCHANGED <<storeVars, pairVars, hpcVars>>

\* lines 245-248: the waveform the model is given
normalized(y0) ==
    LET yoff == Last(y0)
        amp == std(y0)
    IN  [i \in DOMAIN y0 |-> FDiv(FSub(y0[i], yoff), amp)]

\* the model line 250 calls: the name `model` is looked up in the module,
\* not in self
model_of(self) == model

\* fit: [exc, result]; the name `model` unbound is a NameError
PspMLMethod_fit(self, y0, t, fit_time) ==
    LET yoff == Last(y0)
        amp == std(y0)
        y == normalized(y0)
        m == model_of(self)
        fit == predict(m, y)
    IN  IF m = None
        THEN [exc |-> Exc("NameError"), result |-> None]
        ELSE [exc |-> NoExc,
              result |-> [fit |-> fit,
                          yoffset |-> FAdd(FMul(fit[1], amp), yoff),
                          amp |-> FMul(fit[2], amp),
                          rise_time |-> fit[3],
                          decay_tau |-> fit[4],
                          init_yoffset |-> yoff,
                          init_amp |-> amp,
                          fit_time |-> fit_time]]

\* result = method.fit(y, t) and the copy into examples[] after it
MLFit ==
    \E smp \in Samples, fit_time \in Elapsed :
        /\ ml_method # None
        /\ LET r == PspMLMethod_fit(ml_method, smp.y, smp.t, fit_time)
           IN  fit_ret' = FitRet("PspMLMethod.fit", ml_method, smp, r.exc, r.result,
                                 IF r.exc = NoExc
                                 THEN collect(ml_method.name, r.result) ELSE None)
        /\ UNCHANGED <<jac_fns, exp_methods, ml_method, model>>
        /\ UNCHANGED <<storeVars, pairVars, hpcVars>>

InitML ==
    /\ experiment = <<>> /\ slice = <<>> /\ cell = <<>> /\ morphology = <<>>
    /\ morpho_src = <<>> /\ cluster_src = <<>>
    /\ ret = Ret("init", 0, "", NoExc, <<>>, <<>>, <<>>, <<>>)
    /\ NoPairs /\ NoFits /\ NoRuns

NextML ==
    \/ PspMLMethodInit
    \/ Train
    \/ MLFit

SpecML == InitML /\ [][NextML]_vars

----------------------------------------------------------------------------
(* SynphysDatabase.pair_query *)

False == [kind |-> "bool", s |-> "", n |-> 0]
\* a Python list of strings
List(items) == [kind |-> "list", s |-> "", n |-> 0, items |-> items]

PairRow(id, experiment_id, pre, post, synapse, electrical, distance) ==
    [id |-> id, experiment_id |-> experiment_id, pre_cell_id |-> pre,
     post_cell_id |-> post, synapse |-> synapse, electrical |-> electrical,
     distance |-> distance]

\* pairs of two experiments; pair 5 has no experiment
PairRows ==
    << PairRow(1, Num(1), 1, 2, True, False, Num(50)),
       PairRow(2, Num(1), 2, 1, False, True, Num(120)),
       PairRow(3, Num(2), 3, 4, True, None, None),
       PairRow(4, Num(2), 4, 3, None, False, Num(50)),
       PairRow(5, None, 1, 2, True, False, Num(50)) >>

\* experiment 2 has no slice
PairExperiments ==
    << [id |-> Num(1), ext_id |-> 1000, slice_id |-> Num(1),
        project_name |-> Str("mouse V1 coarse matrix"), acsf |-> Str("2mM Ca"),
        internal |-> Str("Standard K-Gluc")],
       [id |-> Num(2), ext_id |-> 2000, slice_id |-> None,
        project_name |-> Str("human coarse matrix"), acsf |-> None,
        internal |-> Str("Standard K-Gluc")] >>

PairSlices == << [id |-> Num(1), age |-> Num(40), species |-> Str("mouse")] >>

PairCells == [id \in 1..4 |-> [id |-> id, ext_id |-> id]]

\* the row of an outer join that found no match: every column NULL
NullRow == [id |-> None, age |-> None, species |-> None, pair_id |-> None]

Rows(table) == {table[i] : i \in DOMAIN table}

\* JOIN: the matching rows
join(rows) == rows
\* LEFT OUTER JOIN: the matching rows, or NULL columns where there is none
outerjoin_Inner(rows) == rows

outerjoin(rows) == IF rows = {} THEN {NullRow} ELSE rows

\* lines 99-105: the rows of the joined query that come from pair p
joined(p) ==
    {[pair |-> p, pre_morphology |-> prm, post_morphology |-> pom,
      experiment |-> e, slice |-> sl, connection_strength |-> cs] :
         prm \in join({m \in Rows(morphology) :
                           /\ p.pre_cell_id \in DOMAIN cell
                           /\ m.cell_id = cell[p.pre_cell_id].id}),
         pom \in join({m \in Rows(morphology) :
                           /\ p.post_cell_id \in DOMAIN cell
                           /\ m.cell_id = cell[p.post_cell_id].id}),
         e \in join({x \in Rows(experiment) :
                           p.experiment_id # None /\ x.id = p.experiment_id}),
         sl \in UNION {outerjoin({s \in Rows(slice) :
                                      x.slice_id # None /\ s.id = x.slice_id}) :
                           x \in {x \in Rows(experiment) :
                                      p.experiment_id # None /\ x.id = p.experiment_id}},
         cs \in outerjoin({c \in Rows(connection_strength) : c.pair_id = Num(p.id)})}

\* SQL comparisons: a NULL operand never matches
SqlEq(col, v) == col # None /\ col = v
SqlIn(col, vs) == col # None /\ \E k \in DOMAIN vs : vs[k] = col
SqlGe(col, v) == col # None /\ col.n >= v.n
SqlLe(col, v) == col # None /\ col.n <= v.n

\* column == value for a str, column.in_(value) for a list
StrOrList(col, v) == IF v.kind = "str" THEN SqlEq(col, v) ELSE SqlIn(col, v.items)

\* (min, max), either of them None
Range(col, rng) ==
    /\ rng[1] # None => SqlGe(col, rng[1])
    /\ rng[2] # None => SqlLe(col, rng[2])

NoFilter ==
    [synapse |-> None, electrical |-> None, project_name |-> None, acsf |-> None,
     age |-> None, species |-> None, distance |-> None, internal |-> None]

\* lines 113-150 on one row of the join
filters(args, row) ==
    /\ args.synapse # None => SqlEq(row.pair.synapse, args.synapse)
    /\ args.electrical # None => SqlEq(row.pair.electrical, args.electrical)
    /\ args.project_name # None =>
           StrOrList(row.experiment.project_name, args.project_name)
    /\ args.acsf # None => StrOrList(row.experiment.acsf, args.acsf)
    /\ args.age # None => Range(row.slice.age, args.age.items)
    /\ args.distance # None => Range(row.pair.distance, args.distance.items)
    /\ args.species # None => SqlEq(row.slice.species, args.species)
    /\ args.internal # None => StrOrList(row.experiment.internal, args.internal)

\* pair_query(...).all(): the Pair entities of the rows left, each once, in
\* the order of the table
pair_query(args) ==
    SelectSeq(pair, LAMBDA p : \E row \in joined(p) : filters(args, row))

\* the values a caller passes for each filter
FilterValues ==
    [synapse |-> {True, False},
     electrical |-> {True, False},
     project_name |-> {Str("mouse V1 coarse matrix"),
                       List(<<Str("human coarse matrix"), Str("mouse V1 coarse matrix")>>)},
     acsf |-> {Str("2mM Ca"), List(<<Str("1.3mM Ca")>>)},
     age |-> {List(<<Num(30), None>>), List(<<None, Num(35)>>)},
     species |-> {Str("mouse"), Str("human")},
     distance |-> {List(<<Num(100), None>>), List(<<Num(10), Num(100)>>)},
     internal |-> {Str("Standard K-Gluc"), List(<<Str("PatchSeq")>>)}]

\* calls with at most two filters given
PairQueryArgs ==
    UNION {{[NoFilter EXCEPT ![fg[1]] = v, ![fg[2]] = w] :
                v \in FilterValues[fg[1]] \cup {None},
                w \in FilterValues[fg[2]] \cup {None}} :
               fg \in (DOMAIN FilterValues) \X (DOMAIN FilterValues)}

PairQuery ==
    \E args \in PairQueryArgs :
        /\ ret' = Ret("pair_query", args, "", NoExc, <<>>, pair_query(args), <<>>, <<>>)
        /\ UNCHANGED <<experiment, slice, cell, morphology, morpho_src, cluster_src>>
        /\ UNCHANGED extVars

InitPairs ==
    /\ experiment = PairExperiments
    /\ slice = PairSlices
    /\ cell = PairCells
    /\ morphology \in {[i \in 1..Len(cs) |-> [cell_id |-> cs[i]]] :
                          cs \in {<<>>, <<1, 2>>, <<1, 2, 3>>, <<1, 2, 3, 4>>,
                                  <<2, 3, 4>>, <<1, 1, 2, 3, 4>>}}
    /\ morpho_src = <<>>
    /\ cluster_src = <<>>
    /\ ret = Ret("init", 0, "", NoExc, <<>>, <<>>, <<>>, <<>>)
    /\ pair = PairRows
    /\ connection_strength \in {<<>>, <<[pair_id |-> Num(1)]>>,
                                <<[pair_id |-> Num(1)], [pair_id |-> Num(3)]>>}
    /\ NoFits /\ NoRuns

NextPairs == PairQuery

SpecPairs == InitPairs /\ [][NextPairs]_vars

----------------------------------------------------------------------------
(* stochastic_model_hpc.py: the submission script *)

\* most runs of the script, one after another or overlapping
MaxRuns == 2

\* f'{expt_id}_{pre_cell_id}_{post_cell_id}'
job_id_of(p) ==
    LET expt_id == (CHOOSE e \in Rows(experiment) : e.id = p.experiment_id).ext_id
        pre_cell_id == cell[p.pre_cell_id].ext_id
        post_cell_id == cell[p.post_cell_id].ext_id
    IN  <<expt_id, pre_cell_id, post_cell_id>>

\* f'{cache_path}/{job_id}.pkl' and f'{log_path}/{job_id}.qsub'
CacheFile(job_id) == <<"cache", job_id, "pkl">>
QsubFile(job_id) == <<"log", job_id, "qsub">>

\* os.path.exists
exists(path) == path \in DOMAIN files

\* open(path, 'w').write(text) and open(path, 'a').write(text)
Write(path, text) == [q \in DOMAIN files \cup {path} |-> IF q = path THEN <<text>> ELSE files[q]]
AppendTo(path, text) == [files EXCEPT ![path] = Append(@, text)]

\* line 32
SynapsePairs == pair_query([NoFilter EXCEPT !.synapse = True])

\* a run: the pairs it loops over, the index of the pair it is at, where it
\* is in the loop body, what it printed and what it did to files and queue
Run(pairs, i, pc, sub_id, stdout, did) ==
    [pairs |-> pairs, i |-> i, pc |-> pc, sub_id |-> sub_id, stdout |-> stdout,
     did |-> did]

\* the loop moves to the next pair, or ends
Advance(run, stdout, did) ==
    Run(run.pairs, run.i + 1,
        IF run.i + 1 > Len(run.pairs) THEN "done" ELSE "examine", 0, stdout, did)

\* lines 20-32: the directories exist; the pairs are queried
StartRun ==
    /\ Len(runs) < MaxRuns
    /\ runs' = Append(runs, Run(SynapsePairs, 1,
                                IF SynapsePairs = <<>> THEN "done" ELSE "examine",
                                0, <<>>, <<>>))
    /\ UNCHANGED <<files, queue>>
    /\ UNCHANGED <<storeVars, pairVars, fitVars>>

\* lines 35-43: the cached result is looked for
examine(run) ==
    LET job_id == job_id_of(run.pairs[run.i])
    IN  IF exists(CacheFile(job_id))
        THEN Advance(run, Append(run.stdout, <<job_id, "SKIP">>),
                     Append(run.did, <<"skip", job_id>>))
        ELSE [run EXCEPT !.pc = "write"]

Examine ==
    \E r \in DOMAIN runs :
        /\ runs[r].pc = "examine"
        /\ runs' = [runs EXCEPT ![r] = examine(runs[r])]
        /\ UNCHANGED <<files, queue>>
        /\ UNCHANGED <<storeVars, pairVars, fitVars>>

\* lines 45-60: the qsub file is written
WriteQsub ==
    \E r \in DOMAIN runs :
        /\ runs[r].pc = "write"
        /\ LET job_id == job_id_of(runs[r].pairs[runs[r].i])
           IN  /\ files' = Write(QsubFile(job_id), <<"qsub_template", job_id>>)
               /\ runs' = [runs EXCEPT ![r].pc = "submit",
                                       ![r].did = Append(@, <<"write", job_id>>)]
        /\ UNCHANGED queue
        /\ UNCHANGED <<storeVars, pairVars, fitVars>>

\* subprocess.check_output: the output of a command that exits 0, and
\* CalledProcessError, which nothing catches, for any other exit status
check_output(run, status, out) ==
    IF status = 0 THEN [run EXCEPT !.pc = "append", !.sub_id = out]
    ELSE [run EXCEPT !.pc = "CalledProcessError"]

\* what qsub does: it accepts the job and prints its id, or fails
qsub(job_id, status) ==
    IF status = 0 THEN Append(queue, [sub_id |-> Len(queue) + 1, job_id |-> job_id,
                                      state |-> "in flight"])
    ELSE queue

\* line 62
Submit ==
    \E r \in DOMAIN runs, status \in {0, 1} :
        /\ runs[r].pc = "submit"
        /\ LET job_id == job_id_of(runs[r].pairs[runs[r].i])
               run == check_output(runs[r], status, Len(queue) + 1)
           IN  /\ queue' = qsub(job_id, status)
               /\ runs' = [runs EXCEPT ![r] =
                              IF status = 0
                              THEN [run EXCEPT !.did = Append(@, <<"submit", job_id>>)]
                              ELSE run]
        /\ UNCHANGED files
        /\ UNCHANGED <<storeVars, pairVars, fitVars>>

\* lines 63-65: the submission id is appended and printed
AppendId ==
    \E r \in DOMAIN runs :
        /\ runs[r].pc = "append"
        /\ LET job_id == job_id_of(runs[r].pairs[runs[r].i])
           IN  /\ files' = AppendTo(QsubFile(job_id), <<"#", runs[r].sub_id>>)
               /\ runs' = [runs EXCEPT ![r] =
                              Advance(runs[r],
                                      Append(runs[r].stdout, <<job_id, runs[r].sub_id>>),
                                      Append(runs[r].did, <<"append", job_id>>))]
        /\ UNCHANGED queue
        /\ UNCHANGED <<storeVars, pairVars, fitVars>>

\* the job of the qsub file: stochastic_release_model.py --cache-path writes
\* the cached result, or exits with an error and writes none
JobEnds ==
    \E j \in DOMAIN queue, ok \in BOOLEAN :
        /\ queue[j].state = "in flight"
        /\ queue' = [queue EXCEPT ![j].state = IF ok THEN "done" ELSE "failed"]
        /\ files' = IF ok THEN Write(CacheFile(queue[j].job_id), "result") ELSE files
        /\ UNCHANGED runs
        /\ UNCHANGED <<storeVars, pairVars, fitVars>>

AllMorphology == [i \in 1..4 |-> [cell_id |-> i]]

\* the cached results a run may find
InitHpc ==
    /\ experiment = PairExperiments
    /\ slice = PairSlices
    /\ cell = PairCells
    /\ morphology = AllMorphology
    /\ morpho_src = <<>>
    /\ cluster_src = <<>>
    /\ ret = Ret("init", 0, "", NoExc, <<>>, <<>>, <<>>, <<>>)
    /\ pair = PairRows
    /\ connection_strength = <<>>
    /\ NoFits
    /\ files \in {[path \in {CacheFile(job_id_of(PairRows[k])) : k \in ks} |-> <<"result">>] :
                      ks \in SUBSET {1, 3}}
    /\ queue = <<>>
    /\ runs = <<>>

NextHpc ==
    \/ StartRun
    \/ Examine
    \/ WriteQsub
    \/ Submit
    \/ AppendId
    \/ JobEnds

SpecHpc == InitHpc /\ [][NextHpc]_vars

----------------------------------------------------------------------------
(* Properties *)

\* ready_jobs was the last operation, loaded the source and returned its map
ReadyReturned == ret.op = "ready_jobs" /\ ret.source = "ok" /\ ret.exc = NoExc

InReady(job) == \E k \in 1..Len(ret.ready) : ret.ready[k].job = job

\* the dep_time the returned map gives a job
DepTime(job) == SelectSeq(ret.ready, LAMBDA e : e.job = job)[1].dep_time

\* the jobs the dependency module finished with success
Succeeded == {i \in 1..Len(finished_jobs) : finished_jobs[i].success = "True"}

\* the Experiment row of a job
JobExperiment(job) == experiment[CHOOSE i \in 1..Len(experiment) : experiment[i].ext_id = job]

\* the hash create_db_entries stores for a specimen from the source as it is now
CurrentHash(specimen) ==
    IF ~IsNone(specimen) /\ specimen.n \in DOMAIN morpho_src
    THEN md5(Repr(morpho_src[specimen.n]))
    ELSE NoHash

\* the stored Morphology rows of a cell, and of the cells of a specimen
RowsOfCell(c) == SelectSeq(morphology, LAMBDA m : m.cell_id = c)
RowsOfSpecimen(id) ==
    SelectSeq(morphology, LAMBDA m : cell[m.cell_id].meta["lims_specimen_id"] = id)

\* the cell has a specimen id and the source holds a row for it
HasSourceRow(c) ==
    /\ ~IsNone(cell[c].meta["lims_specimen_id"])
    /\ cell[c].meta["lims_specimen_id"].n \in DOMAIN morpho_src

\* every cell of the experiment has a source row and one stored row, which
\* create_db_entries derived from the source row as it is now
UpToDate(e) ==
    /\ Len(e.cells) > 0
    /\ \A i \in 1..Len(e.cells) :
          /\ HasSourceRow(e.cells[i])
          /\ Len(RowsOfCell(e.cells[i])) = 1
          /\ RowsOfCell(e.cells[i])[1].morpho_db_hash
                = CurrentHash(cell[e.cells[i]].meta["lims_specimen_id"])

\* C1: a job whose Morphology rows were written from source rows that have
\* not changed since is returned with dep_time equal to the experiment
\* module's completion time, not the current time.
C1_UnchangedKeepsDepTime ==
    ReadyReturned =>
        \A i \in Succeeded :
            UpToDate(JobExperiment(finished_jobs[i].job)) =>
                /\ InReady(finished_jobs[i].job)
                /\ DepTime(finished_jobs[i].job) = finished_jobs[i].mtime

\* the experiment has a cluster id and the cluster lookup returned a list
Resolvable(e) ==
    /\ ~IsNone(e.meta.lims_cell_cluster_id)
    /\ ~cluster_src[e.meta.lims_cell_cluster_id.n].isNone

ClusterCells(e) == cluster_src[e.meta.lims_cell_cluster_id.n].cells

\* the cluster cell has no stored row, a stored row without a hash, or a
\* stored row derived from a source row that differs from the one now
Stale(id) ==
    \/ Len(RowsOfSpecimen(id)) = 0
    \/ \E k \in 1..Len(RowsOfSpecimen(id)) :
          \/ RowsOfSpecimen(id)[k].morpho_db_hash = NoHash
          \/ RowsOfSpecimen(id)[k].morpho_db_hash # CurrentHash(id)

\* C2 as stated: a successful job with a resolvable cluster, one of whose
\* cluster cells is stale, is returned with dep_time set to the current time.
C2_AnyStaleCellBumps ==
    ReadyReturned =>
        \A i \in Succeeded :
            LET e == JobExperiment(finished_jobs[i].job)
            IN  (Resolvable(e) /\ \E k \in 1..Len(ClusterCells(e)) :
                                      IsNone(ClusterCells(e)[k]) \/ Stale(ClusterCells(e)[k]))
                => /\ InReady(finished_jobs[i].job)
                   /\ DepTime(finished_jobs[i].job) \in NowValues

\* C2 amended: a successful job with a resolvable cluster, one of whose
\* cluster cells has an id and is stale, is returned with dep_time set to the
\* current time.
C2_StaleCellWithIdBumps ==
    ReadyReturned =>
        \A i \in Succeeded :
            LET e == JobExperiment(finished_jobs[i].job)
            IN  (Resolvable(e) /\ \E k \in 1..Len(ClusterCells(e)) :
                                      /\ ~IsNone(ClusterCells(e)[k])
                                      /\ Stale(ClusterCells(e)[k]))
                => /\ InReady(finished_jobs[i].job)
                   /\ DepTime(finished_jobs[i].job) \in NowValues

\* job 1000 is returned with the current time after the source row of one of
\* its cluster cells changed in one field and the other cell's row did not
C2_Witness ==
    /\ ReadyReturned
    /\ 101 \in DOMAIN morpho_src /\ 102 \in DOMAIN morpho_src
    /\ Len(RowsOfSpecimen(Num(101))) = 1
    /\ RowsOfSpecimen(Num(101))[1].morpho_db_hash
          = md5(Repr(SourceRow(101, AnnotA)))
    /\ morpho_src[101] = SourceRow(101, AnnotAspiny)
    /\ Len(RowsOfSpecimen(Num(102))) = 1
    /\ RowsOfSpecimen(Num(102))[1].morpho_db_hash = CurrentHash(Num(102))
    /\ InReady(1000) /\ DepTime(1000) \in NowValues

\* C3: two snapshots of a source row that differ in one non-null field value
\* get different hashes from ready_jobs.
C3_HashTracksValues ==
    \A sid \in DOMAIN morpho_src :
        \A a \in Annotations[sid] :
            LET other == SourceRow(sid, a)
            IN  (\E f \in DOMAIN other :
                    /\ other[f] # morpho_src[sid][f]
                    /\ ~IsNone(other[f]) /\ ~IsNone(morpho_src[sid][f]))
                => ReadyHash(morpho_src, sid)
                      # ReadyHash([morpho_src EXCEPT ![sid] = other], sid)

\* C4: every job id in the map ready_jobs returns was finished by the
\* experiment module with success exactly True.
C4_OnlySucceededJobs ==
    ret.op = "ready_jobs" =>
        \A k \in 1..Len(ret.ready) :
            \E i \in 1..Len(finished_jobs) :
                /\ finished_jobs[i].job = ret.ready[k].job
                /\ finished_jobs[i].success = "True"

\* the map holds a job that succeeded and neither the failed nor the
\* unfinished job, whose experiment shares the stale cluster
C4_Witness ==
    /\ ReadyReturned
    /\ InReady(1000) /\ DepTime(1000) \in NowValues
    /\ ~InReady(1051) /\ ~InReady(1052)

\* C5: when the morphology source cannot be loaded, ready_jobs returns an
\* empty map and raises nothing.
C5_SourceFailureIsSoft ==
    (ret.op = "ready_jobs" /\ ret.source # "ok") =>
        (ret.exc = NoExc /\ ret.ready = <<>>)

\* create_db_entries was the last operation and reached its loop over the cells
CreateRan == ret.op = "create_db_entries" /\ ret.source = "ok"

IsMember(col, v) ==
    /\ v.kind = "str"
    /\ \E i \in 1..Len(col_names[col].members) : col_names[col].members[i] = v.s

IsNumber(v) == v.kind = "num" \/ (v.kind = "str" /\ v.s \in DOMAIN FloatLiterals)

\* a non-null value that is no member of its column's set, or no float
BadValue(col, v) ==
    /\ ~IsNone(v)
    /\ \/ col_names[col].type = "list" /\ ~IsMember(col, v)
       \/ col_names[col].type = "float" /\ ~IsNumber(v)

SourceRowOfCell(c) == morpho_src[cell[c].meta["lims_specimen_id"].n]

HasBadValue(c) ==
    HasSourceRow(c) /\ \E col \in DOMAIN col_names : BadValue(col, SourceRowOfCell(c)[col])

\* C6: a bad enumerated or float value raises an error naming the value, the
\* cell and the column, no row is created for that cell, and an enumerated
\* value that matches a member is stored as that member.
C6_BadValueRaises ==
    CreateRan =>
        LET e == JobExperiment(ret.arg)
        IN  /\ (\E i \in 1..Len(e.cells) : HasBadValue(e.cells[i])) =>
                  /\ ret.exc.type = "Exception"
                  /\ \E i \in 1..Len(e.cells) :
                        /\ HasBadValue(e.cells[i])
                        /\ ret.exc.cell = cell[e.cells[i]].meta["lims_specimen_id"]
                        /\ ret.exc.column \in DOMAIN col_names
                        /\ ret.exc.value = SourceRowOfCell(e.cells[i])[ret.exc.column]
                        /\ BadValue(ret.exc.column, ret.exc.value)
            /\ \A k \in 1..Len(ret.added) :
                  /\ ~HasBadValue(ret.added[k].cell_id)
                  /\ HasSourceRow(ret.added[k].cell_id) =>
                        \A col \in DOMAIN col_names :
                            LET v == SourceRowOfCell(ret.added[k].cell_id)[col]
                            IN  (col_names[col].type = "list" /\ ~IsNone(v)) =>
                                    /\ IsMember(col, v)
                                    /\ ret.added[k].cols[col_names[col].name] = v
            /\ \A k \in 1..Len(morphology) :
                  \A col \in DOMAIN col_names :
                      LET v == morphology[k].cols[col_names[col].name]
                      IN  /\ col_names[col].type = "list" => (IsNone(v) \/ IsMember(col, v))
                          /\ col_names[col].type = "float" => (IsNone(v) \/ v.kind = "num")

\* the value 'Intact' of the first cell of job 1000 raised the error and no
\* row was added
C6_Witness ==
    /\ CreateRan /\ ret.arg = 1000
    /\ ret.exc = ParseError(Str("Intact"), Num(101), "Axon_truncation")
    /\ ret.added = <<>>

\* C7: every cell of the job other than the one with the bad value still gets
\* its Morphology row added to the session.
C7_OtherCellsStillAdded ==
    CreateRan =>
        LET e == JobExperiment(ret.arg)
        IN  \A i \in 1..Len(e.cells) :
                ~HasBadValue(e.cells[i]) =>
                    \E k \in 1..Len(ret.added) : ret.added[k].cell_id = e.cells[i]

\* a morphology string that is neither missing, empty nor 'pyr'
Unknown(u) == ~IsNone(u) /\ u # Str("") /\ u # Str("pyr")

UserMorphologyOf(c) == user_morphology[cell[c].ext_id]

SliceMatches(ts) == SelectSeq(slice, LAMBDA r : r.acq_timestamp = ts)
ExperimentMatches(ts) ==
    LET exact == SelectSeq(experiment, LAMBDA e : e.acq_timestamp = ts)
    IN  IF Len(exact) > 0 THEN exact
        ELSE SelectSeq(experiment,
                       LAMBDA e : e.acq_timestamp - ts < Tolerance
                                  /\ ts - e.acq_timestamp < Tolerance)

\* C9: the lookups raise when more than one stored row matches the timestamp
\* and return a row only when it is the single match.
C9_AmbiguousLookupRaises ==
    /\ ret.op = "slice_from_timestamp" =>
          /\ Len(SliceMatches(ret.arg)) > 1 => (ret.rec = <<>> /\ ret.exc # NoExc)
          /\ ret.rec # <<>> => ret.rec = SliceMatches(ret.arg)
    /\ ret.op = "experiment_from_timestamp" =>
          /\ Len(ExperimentMatches(ret.arg)) > 1 => (ret.rec = <<>> /\ ret.exc # NoExc)
          /\ ret.rec # <<>> => ret.rec = ExperimentMatches(ret.arg)

\* C10: a successful job without a cluster id, or whose cluster lookup returns
\* None or no cells, is returned with dep_time equal to its completion time.
C10_NoClusterKeepsDepTime ==
    ReadyReturned =>
        \A i \in Succeeded :
            LET e == JobExperiment(finished_jobs[i].job)
            IN  (\/ IsNone(e.meta.lims_cell_cluster_id)
                 \/ cluster_src[e.meta.lims_cell_cluster_id.n].isNone
                 \/ cluster_src[e.meta.lims_cell_cluster_id.n].cells = <<>>)
                => /\ InReady(finished_jobs[i].job)
                   /\ DepTime(finished_jobs[i].job) = finished_jobs[i].mtime

\* the jobs without a cluster id (1004), with a failed cluster lookup (1050)
\* and with an empty cluster (1060) keep their completion times in a map in
\* which job 1000 was given the current time
C10_Witness ==
    /\ ReadyReturned
    /\ InReady(1004) /\ DepTime(1004) = finished_jobs[2].mtime
    /\ InReady(1050) /\ DepTime(1050) = finished_jobs[3].mtime
    /\ InReady(1060) /\ DepTime(1060) = finished_jobs[6].mtime
    /\ InReady(1000) /\ DepTime(1000) \in NowValues
    /\ Len(morphology) > 0

----------------------------------------------------------------------------
(* Properties of the fit engine *)

FitReturned == fit_ret.op \in {"ExpFitMethod.fit", "PspFitMethod.fit"}

\* params of the class whose fit returned
FitParams ==
    IF fit_ret.op = "ExpFitMethod.fit" THEN <<"yoffset", "amp", "tau">>
    ELSE <<"yoffset", "amp", "rise_time", "decay_tau">>

\* C11: ExpFitMethod.fit and PspFitMethod.fit return a result record for
\* every outcome of the minimizer and raise nothing; the record carries the
\* minimizer's success flag, so success is false when it did not converge, and
\* its parameter fields hold the minimizer's final parameter vector.
C11_FitReturnsEveryOutcome ==
    FitReturned =>
        /\ fit_ret.exc = NoExc
        /\ fit_ret.result.success = fit_ret.result.fit.success
        /\ \A i \in DOMAIN FitParams :
               fit_ret.result[FitParams[i]] = fit_ret.result.fit.x[i]
        /\ fit_ret.result.err = fit_ret.result.fit.fun
        /\ fit_ret.result.nfev = fit_ret.result.fit.nfev

\* a fit that did not converge and ended away from its initial guess
C11_Witness ==
    /\ fit_ret.op = "ExpFitMethod.fit"
    /\ ~fit_ret.result.success
    /\ fit_ret.result.tau # fit_ret.result.init_tau

\* C12: for every sample of at least one point the result records the initial
\* guess: init_yoffset is the last amplitude, init_amp the first amplitude
\* minus it, init_tau (ExpFitMethod) and init_decay_tau (PspFitMethod) the
\* last time minus the first, init_rise_time a third of init_decay_tau,
\* whatever the minimizer returned.
C12_InitialGuessRecorded ==
    FitReturned =>
        LET y == fit_ret.args.y
            t == fit_ret.args.t
            r == fit_ret.result
            span == t[Len(t)].n - t[1].n
        IN  /\ Len(y) >= 1
            /\ r.init_yoffset = Num(y[Len(y)].n)
            /\ r.init_amp = Num(y[1].n - y[Len(y)].n)
            /\ fit_ret.op = "ExpFitMethod.fit" => r.init_tau = Num(span)
            /\ fit_ret.op = "PspFitMethod.fit" =>
                   /\ r.init_decay_tau = Num(span)
                   /\ r.init_rise_time = Num(span \div 3)

\* a PspFitMethod fit of a sample that rises, ended away from the guess
C12_Witness ==
    /\ fit_ret.op = "PspFitMethod.fit"
    /\ Len(fit_ret.args.y) > 1
    /\ fit_ret.args.y[1] # Last(fit_ret.args.y)
    /\ fit_ret.result.yoffset # fit_ret.result.init_yoffset
    /\ fit_ret.result.init_rise_time # Num(0)

\* the model's waveform at params is the sample itself
ZeroResidual ==
    exp_fn(fit_ret.args.params, fit_ret.args.t) = fit_ret.args.y

\* C13: when the residual norm is 0, exp_jac_fn returns the zero gradient
\* [0, 0, 0] and no component is NaN or infinite.
C13_ZeroNormZeroGradient ==
    (fit_ret.op = "exp_jac_fn" /\ ZeroResidual) =>
        fit_ret.result = <<Num(0), Num(0), Num(0)>>

\* C14: PspMLMethod.fit of an instance that was given a model returns a
\* result made by that model's prediction; the result and the row it is
\* copied to hold no err, nfev or success.
C14_MLFitUsesGivenModel ==
    fit_ret.op = "PspMLMethod.fit" =>
        /\ fit_ret.self.model # None =>
               /\ fit_ret.exc = NoExc
               /\ fit_ret.result.fit =
                      predict(fit_ret.self.model, normalized(fit_ret.args.y))
        /\ fit_ret.exc = NoExc =>
               /\ DOMAIN fit_ret.result \cap {"err", "nfev", "success"} = {}
               /\ \A key \in DOMAIN fit_ret.ex :
                      key[2] \notin {"err", "nfev", "success"}

\* C15: the class-level gradient cache, once non-null, is not changed by any
\* later construction, fit or eval, in any interleaving.
C15_CacheWrittenOnce ==
    [][jac_fns # NoJac => jac_fns' = jac_fns]_vars

----------------------------------------------------------------------------
(* Properties of the submission script *)

RunEnded(run) == run.pc \in {"done", "CalledProcessError"}

\* what a run did for the pair at index k, in order
DidFor(run, k) ==
    LET mine == SelectSeq(run.did, LAMBDA e : e[2] = job_id_of(run.pairs[k]))
    IN  [n \in DOMAIN mine |-> mine[n][1]]

\* C16: in one run, for every synapse pair: a pair whose cached result exists
\* when examined gets no qsub file and no job; every other pair gets exactly
\* one qsub file and exactly one job, the file written before the submission
\* and the submission id appended after it.
C16_OneFileOneJobPerPair ==
    \A r \in DOMAIN runs :
        RunEnded(runs[r]) =>
            \A k \in DOMAIN runs[r].pairs :
                \/ /\ DidFor(runs[r], k) = <<"skip">>
                   /\ exists(CacheFile(job_id_of(runs[r].pairs[k])))
                \/ DidFor(runs[r], k) = <<"write", "submit", "append">>

\* C17: a run goes over every pair, whatever the exit status of the
\* submissions before it: no pair is left unexamined when the run ends.
C17_EveryPairExamined ==
    \A r \in DOMAIN runs :
        RunEnded(runs[r]) =>
            \A k \in DOMAIN runs[r].pairs : DidFor(runs[r], k) # <<>>

\* C19: across runs, at most one job per (experiment, pre, post) is in flight.
C19_OneJobInFlightPerPair ==
    \A j1, j2 \in DOMAIN queue :
        (/\ queue[j1].state = "in flight"
         /\ queue[j2].state = "in flight"
         /\ queue[j1].job_id = queue[j2].job_id) => j1 = j2

----------------------------------------------------------------------------
(* Properties of ready_jobs on the store, and of pair_query *)

\* C18: ready_jobs only reads the persistent store: a call, whichever way it
\* returns, leaves the Experiment, Slice, Cell and Morphology records as they
\* were.
C18_ReadyJobsOnlyReads ==
    [][ret'.op = "ready_jobs" => UNCHANGED <<experiment, slice, cell, morphology>>]_vars

\* ready_jobs returned jobs while Morphology records were stored
C18_Witness ==
    /\ ret.op = "ready_jobs"
    /\ ret.exc = NoExc
    /\ ret.ready # <<>>
    /\ morphology # <<>>

HasMorphology(cell_id) == \E k \in DOMAIN morphology : morphology[k].cell_id = cell_id

\* the pairs that have an experiment and a Morphology record for both cells
PairsWithMorphology ==
    SelectSeq(pair, LAMBDA p :
        /\ p.experiment_id # None
        /\ \E k \in DOMAIN experiment : experiment[k].id = p.experiment_id
        /\ HasMorphology(p.pre_cell_id)
        /\ HasMorphology(p.post_cell_id))

\* the call of ret with only filter f kept
Only(f) == [NoFilter EXCEPT ![f] = ret.arg[f]]

----------------------------------------------------------------------------
(* Properties of the initial guess of PspFitMethod.fit *)

PspFitOfScript ==
    /\ fit_ret.op = "PspFitMethod.fit"
    /\ fit_ret.args \in PspSamples

Inside(x, bound) ==
    /\ x.kind = "num" /\ bound[1].n <= x.n /\ x.n <= bound[2].n

\* C21: for every sample of the script's generator, the initial guess that
\* PspFitMethod.fit hands to the minimizer lies inside the box constraints
\* handed over with it: yoffset0 and amp0 in [-1, 1], rise_time0 in
\* [0.1 ms, 20 ms] and decay_tau0 in [1 ms, 200 ms].
C21_InitialGuessInsideBounds ==
    PspFitOfScript =>
        \A i \in 1..4 :
            Inside(psp_init(fit_ret.args.y, fit_ret.args.t)[i], psp_bounds[i])


----------------------------------------------------------------------------
(* Properties of the cell class update of create_db_entries *)

\* the class the claim gives to a stored dendrite_type
MorphoClass(dtype) ==
    IF dtype = Str("spiny") THEN Str("ex")
    ELSE IF dtype = Str("aspiny") THEN Str("in")
    ELSE None

\* this step is a create_db_entries that returned and stored rows
AddedRows ==
    /\ ret'.op = "create_db_entries"
    /\ ret'.exc = NoExc
    /\ ret'.added # <<>>
    /\ morphology' = morphology \o ret'.added

ClassUpdated(row) ==
    LET old == cell[row.cell_id]
        new == cell'[row.cell_id]
        morpho_class == MorphoClass(row.cols["dendrite_type"])
        transgenic_class == old.meta["transgenic_cell_class"]
    IN  /\ new.meta["morpho_cell_class"] = morpho_class
        /\ new.cell_class_nonsynaptic =
               IF IsNone(transgenic_class) THEN morpho_class
               ELSE IF ~IsNone(morpho_class) /\ transgenic_class # morpho_class
               THEN None
               ELSE old.cell_class_nonsynaptic
        /\ DOMAIN new.meta = DOMAIN old.meta \cup {"morpho_cell_class"}
        /\ \A k \in DOMAIN old.meta \ {"morpho_cell_class"} :
               new.meta[k] = old.meta[k]

\* C22: for every cell create_db_entries processes, morpho_cell_class becomes
\* 'ex' when the dendrite_type stored for the cell is 'spiny', 'in' when it is
\* 'aspiny' and null otherwise; cell_class_nonsynaptic becomes the morpho class
\* when the transgenic class is null, null when both classes are non-null and
\* differ, and keeps its value in every other case; every other key of the
\* cell's meta keeps its value.
C22_CellClassUpdate ==
    [][AddedRows => \A i \in 1..Len(ret'.added) : ClassUpdated(ret'.added[i])]_vars

\* create_db_entries returned for an experiment with a cell of each kind: one
\* without transgenic class that took the morpho class, one whose transgenic
\* class conflicts with the morpho class
C22_Witness ==
    /\ ret.op = "create_db_entries" /\ ret.exc = NoExc
    /\ \E i, j \in 1..Len(ret.added) :
           LET a == cell[ret.added[i].cell_id]
               b == cell[ret.added[j].cell_id]
           IN  /\ IsNone(a.meta["transgenic_cell_class"])
               /\ a.meta["morpho_cell_class"] = Str("ex")
               /\ a.cell_class_nonsynaptic = Str("ex")
               /\ b.meta["transgenic_cell_class"] = Str("in")
               /\ b.meta["morpho_cell_class"] = Str("ex")
               /\ IsNone(b.cell_class_nonsynaptic)

====
